---- MODULE Spec2Model ----
(***************************************************************************)
(* SiliconSchema: the series.yaml merger (build.py) and the validator      *)
(* (validate.py).                                                          *)
(*                                                                         *)
(* A Python dict is a TLA+ function whose DOMAIN is the dict's key set, so *)
(* `k in d` is k \in DOMAIN d and d[k] on a missing key is a KeyError.  A  *)
(* dict that is iterated in insertion order (pads) is a sequence of        *)
(* [name, def] items.  The text generate_series_yaml emits is a sequence of*)
(* lines; each line is a record naming the line's shape (kind) and the     *)
(* values formatted into it.                                               *)
(***************************************************************************)
EXTENDS Integers, Sequences, FiniteSets, TLC

VARIABLES
    chip_yaml,     \* generate_series_yaml: the chip definition
    alt_yaml,      \* a second chip definition, merged with the same table
    pinmux_data,   \* generate_series_yaml: the shared pinmux document
    series,        \* outcome of generate_series_yaml(chip_yaml, pinmux_data)
    alt_series,    \* outcome of generate_series_yaml(alt_yaml, pinmux_data)
    mpc,           \* "off" | "ready" | "merged" | "compared"
    chip_file,     \* validate_chip_source: chips/<name>/chip.yaml
    mpi_dir,       \* validate_chip_source: common/mpi/<name>/mpi.yaml, by name
    sip_result,    \* outcome of validate_chip_source(chip_source_dir, mpi_dir)
    spc,           \* "off" | "ready" | "checked"
    chips_dir,     \* build: the sorted listing of chips/
    pinmux_dir,    \* build: common/pinmux/<name>/pinmux.yaml, by name
    out_files,     \* build: out/<name>/series.yaml as written, by name
    console,       \* build: the warnings printed
    visits,        \* build: the build_chip calls made, each with its outcome
    success,       \* build main: success
    b_dirs,        \* build main: the chip directories to build
    b_all,         \* build main: TRUE unless --chip names one chip
    b_idx,         \* build main: position in b_dirs
    b_exit,        \* build: the process exit code (-1 while running)
    b_pc,          \* "off" | "start" | "loop" | "done" | "aborted" | "crashed"
    out_dir,       \* validate: the sorted listing of out/, with each chip's source
    report,        \* validate: the status line printed per chip
    all_success,   \* validate main: all_success
    validated,     \* validate main: validated
    failed,        \* validate main: failed
    v_dirs,        \* validate main: chip_dirs
    v_idx,         \* validate main: position in chip_dirs
    v_exit,        \* validate: the process exit code (-1 while running)
    v_pc           \* "off" | "start" | "loop" | "done" | "aborted"

merge_vars == <<chip_yaml, alt_yaml, pinmux_data, series, alt_series, mpc>>
sip_vars == <<chip_file, mpi_dir, sip_result, spc>>
build_vars == <<chips_dir, pinmux_dir, out_files, console, visits, success,
                b_dirs, b_all, b_idx, b_exit, b_pc>>
validate_vars == <<out_dir, report, all_success, validated, failed,
                   v_dirs, v_idx, v_exit, v_pc>>

(***************************************************************************)
(* Bounds of the explored inputs.                                          *)
(***************************************************************************)
MaxPads == 2
MaxMux == 2
MaxPins == 2
MaxVariants == 2
MaxMemory == 2
MaxChips == 2

PadNames == {"PA0", "PA1", "PA2"}
PinPadNames == {"PA0", "PA1"}
ModelId == "M1"

EmptyDict == <<>>
None == [none |-> TRUE]

\* range of a sequence
Range(s) == {s[i] : i \in DOMAIN s}

\* sequences over S of length at most n
SeqsUpTo(S, n) == UNION {[1..k -> S] : k \in 0..n}

\* sequences without repetition
Distinct(s) == \A i, j \in DOMAIN s : i # j => s[i] # s[j]

(***************************************************************************)
(* Outcomes of a call: a value, or the exception that left it.             *)
(***************************************************************************)
Ok(l) == [ok |-> TRUE, lines |-> l]
Raise(k) == [ok |-> FALSE, error |-> "KeyError", key |-> k]

\* two emitted pieces one after the other; the first exception wins
Cat(r, s) == IF ~r.ok THEN r ELSE IF ~s.ok THEN s ELSE Ok(r.lines \o s.lines)

(***************************************************************************)
(* generate_series_yaml, build.py 49-126                                   *)
(***************************************************************************)

\* build.py 57-61: lines.append(f"schema_version: ...") ... lines.append("")
HeaderLines(chip) ==
    IF "schema_version" \notin DOMAIN chip THEN Raise("schema_version")
    ELSE IF "model_id" \notin DOMAIN chip THEN Raise("model_id")
    ELSE IF "lifecycle" \notin DOMAIN chip THEN Raise("lifecycle")
    ELSE Ok(<< [kind |-> "schema_version", value |-> chip.schema_version],
               [kind |-> "model_id", value |-> chip.model_id],
               [kind |-> "lifecycle", value |-> chip.lifecycle],
               [kind |-> "blank"] >>)

\* build.py 63-71: one inline mapping per doc entry, input order
DocsLines(chip) ==
    IF "docs" \notin DOMAIN chip THEN Raise("docs")
    ELSE Ok(<<[kind |-> "docs"]>>
            \o [i \in 1..Len(chip.docs) |->
                  [kind |-> "doc", doc_type |-> chip.docs[i].doc_type,
                   locales |-> chip.docs[i].locales]]
            \o <<[kind |-> "blank"]>>)

\* build.py 93-96: one "- {function: .., select: ..}" line per table entry
RECURSIVE MuxLines(_)
MuxLines(entries) ==
    IF entries = <<>> THEN Ok(<<>>)
    ELSE LET entry == Head(entries) IN
         IF "function" \notin DOMAIN entry THEN Raise("function")
         ELSE IF "select" \notin DOMAIN entry THEN Raise("select")
         ELSE Cat(Ok(<<[kind |-> "mux", function |-> entry.function,
                        select |-> entry.select]>>),
                  MuxLines(Tail(entries)))

\* build.py 90-96: the pinmux field of one pad, merged from the shared table
PadPinmuxLines(pad_name, pinmux_map) ==
    IF pad_name \in DOMAIN pinmux_map
    THEN Cat(Ok(<<[kind |-> "pinmux"]>>), MuxLines(pinmux_map[pad_name]))
    ELSE Ok(<<>>)

\* build.py 78-96: one pad, its anchor, its optional fields, its pinmux
PadLines(pad_name, pad_def, pinmux_map) ==
    IF "type" \notin DOMAIN pad_def THEN Raise("type")
    ELSE Cat(Ok(<<[kind |-> "pad", name |-> pad_name, anchor |-> pad_name],
                  [kind |-> "type", value |-> pad_def.type]>>
                \o (IF "description" \in DOMAIN pad_def
                    THEN <<[kind |-> "pad_description", value |-> pad_def.description]>>
                    ELSE <<>>)
                \o (IF "notes" \in DOMAIN pad_def
                    THEN <<[kind |-> "notes", value |-> pad_def.notes]>>
                    ELSE <<>>)),
             PadPinmuxLines(pad_name, pinmux_map))

\* build.py 77: for pad_name, pad_def in chip_yaml['pads'].items()
RECURSIVE PadsLoop(_, _)
PadsLoop(items, pinmux_map) ==
    IF items = <<>> THEN Ok(<<>>)
    ELSE Cat(PadLines(Head(items).name, Head(items).def, pinmux_map),
             PadsLoop(Tail(items), pinmux_map))

\* build.py 75: pinmux_map = pinmux_data.get('pinmux', {})
PinmuxMap(pinmux) ==
    IF "pinmux" \in DOMAIN pinmux THEN pinmux.pinmux ELSE EmptyDict

\* build.py 73-98: the pads section
PadsSection(chip, pinmux) ==
    IF "pads" \notin DOMAIN chip THEN Raise("pads")
    ELSE Cat(Cat(Ok(<<[kind |-> "pads"]>>), PadsLoop(chip.pads, PinmuxMap(pinmux))),
             Ok(<<[kind |-> "blank"]>>))

\* build.py 116: f"{chip_yaml['model_id']}_QFN68_PINS"
PinsAnchorName(chip) == chip.model_id \o "_QFN68_PINS"

\* PinLines writing each pad out again instead of referring to its anchor
RECURSIVE PinLinesCopy(_)
PinLinesCopy(pins) ==
    IF pins = <<>> THEN Ok(<<>>)
    ELSE LET pin == Head(pins) IN
         IF "pad" \notin DOMAIN pin THEN Raise("pad")
         ELSE IF "number" \notin DOMAIN pin THEN Raise("number")
         ELSE Cat(Ok(<<[kind |-> "pin", number |-> pin.number,
                        pad |-> [name |-> pin.pad, copy |-> TRUE]]>>),
                  PinLinesCopy(Tail(pins)))

\* build.py 118-120: one '- {number: "..", pad: *PAD}' line per pin
RECURSIVE PinLines(_)
PinLines(pins) ==
    IF pins = <<>> THEN Ok(<<>>)
    ELSE LET pin == Head(pins) IN
         IF "pad" \notin DOMAIN pin THEN Raise("pad")
         ELSE IF "number" \notin DOMAIN pin THEN Raise("number")
         ELSE Cat(Ok(<<[kind |-> "pin", number |-> pin.number,
                        pad |-> [alias |-> pin.pad]]>>),
                  PinLines(Tail(pins)))

\* VariantPins naming the alias after the variant's own package
VariantPinsPerPackage(chip, variant, first_pins_anchor) ==
    IF "pins" \notin DOMAIN variant THEN Raise("pins")
    ELSE IF first_pins_anchor = None
         THEN Cat(Ok(<<[kind |-> "pins_anchor", anchor |-> PinsAnchorName(chip)]>>),
                  PinLines(variant.pins))
         ELSE Ok(<<[kind |-> "pins_alias",
                    alias |-> chip.model_id \o "_" \o variant.package \o "_PINS"]>>)

\* VariantPins writing out the pins of every variant that has pins of its own
VariantPinsOwn(chip, variant, first_pins_anchor) ==
    IF "pins" \notin DOMAIN variant THEN Raise("pins")
    ELSE IF first_pins_anchor = None
         THEN Cat(Ok(<<[kind |-> "pins_anchor", anchor |-> PinsAnchorName(chip)]>>),
                  PinLines(variant.pins))
         ELSE IF variant.pins = <<>>
              THEN Ok(<<[kind |-> "pins_alias", alias |-> first_pins_anchor.name]>>)
              ELSE Cat(Ok(<<[kind |-> "pins_own"]>>), PinLines(variant.pins))

\* build.py 109-123: the pins of one variant; first_pins_anchor is None
\* (None) before the first variant and the anchor's name after it
VariantPins(chip, variant, first_pins_anchor) ==
    IF "pins" \notin DOMAIN variant THEN Raise("pins")
    ELSE IF first_pins_anchor = None
         THEN Cat(Ok(<<[kind |-> "pins_anchor", anchor |-> PinsAnchorName(chip)]>>),
                  PinLines(variant.pins))
         ELSE Ok(<<[kind |-> "pins_alias", alias |-> first_pins_anchor.name]>>)

\* build.py 105-123: one variant
VariantLines(chip, variant, first_pins_anchor) ==
    IF "part_number" \notin DOMAIN variant THEN Raise("part_number")
    ELSE IF "description" \notin DOMAIN variant THEN Raise("description")
    ELSE IF "package" \notin DOMAIN variant THEN Raise("package")
    ELSE Cat(Ok(<<[kind |-> "part_number", value |-> variant.part_number],
                  [kind |-> "variant_description", value |-> variant.description],
                  [kind |-> "package", value |-> variant.package]>>),
             VariantPins(chip, variant, first_pins_anchor))

\* build.py 104: for i, variant in enumerate(chip_yaml['variants'])
RECURSIVE VariantsLoop(_, _, _)
VariantsLoop(chip, variants, first_pins_anchor) ==
    IF variants = <<>> THEN Ok(<<>>)
    ELSE Cat(VariantLines(chip, Head(variants), first_pins_anchor),
             VariantsLoop(chip, Tail(variants), [name |-> PinsAnchorName(chip)]))

\* build.py 100-125: the variants section
VariantsSection(chip) ==
    IF "variants" \notin DOMAIN chip THEN Raise("variants")
    ELSE Cat(Cat(Ok(<<[kind |-> "variants"]>>),
                 VariantsLoop(chip, chip.variants, None)),
             Ok(<<[kind |-> "blank"]>>))

\* build.py 49-126
generate_series_yaml(chip, pinmux) ==
    Cat(Cat(Cat(HeaderLines(chip), DocsLines(chip)), PadsSection(chip, pinmux)),
        VariantsSection(chip))

(***************************************************************************)
(* Reading a series document back, the way validate.py's load_yaml (a YAML *)
(* loader that resolves aliases) reads the text:  a key followed by no     *)
(* nested item is null, a key followed by "- ..." items is a list, an      *)
(* alias *X is the node the anchor &X was put on earlier in the text.      *)
(***************************************************************************)
Min(S) == CHOOSE x \in S : \A y \in S : x <= y
Max(S) == CHOOSE x \in S : \A y \in S : x >= y

\* the k-th smallest member of a set of line numbers
Nth(S, k) == CHOOSE i \in S : Cardinality({j \in S : j <= i}) = k

\* first line after line i whose kind is in stops (Len + 1 when there is none)
BlockEnd(lines, i, stops) ==
    Min({j \in (i + 1)..Len(lines) : lines[j].kind \in stops} \cup {Len(lines) + 1})

PadLineIdx(lines) == {i \in DOMAIN lines : lines[i].kind = "pad"}
PadLineOf(lines, pad_name) ==
    {i \in PadLineIdx(lines) : lines[i].name = pad_name}

\* the lines nested under the pad mapping that starts at line i
PadBody(lines, i) ==
    SubSeq(lines, i + 1, BlockEnd(lines, i, {"pad", "blank", "variants"}) - 1)

IsMux(l) == l.kind = "mux"

\* the pinmux field of the pad at line i: absent, null, or a list of entries
LoadedPinmux(lines, i) ==
    LET body == PadBody(lines, i)
        items == SelectSeq(body, IsMux)
    IN  IF \A j \in DOMAIN body : body[j].kind # "pinmux"
        THEN [present |-> FALSE]
        ELSE IF items = <<>>
             THEN [present |-> TRUE, null |-> TRUE]
             ELSE [present |-> TRUE, null |-> FALSE,
                   list |-> [j \in DOMAIN items |->
                               [function |-> items[j].function,
                                select |-> items[j].select]]]

\* lines that put an anchor named a on a node
AnchorDefs(lines, a) ==
    {i \in DOMAIN lines : lines[i].kind \in {"pad", "pins_anchor"} /\ lines[i].anchor = a}

AnchorNames(lines) ==
    {lines[i].anchor : i \in {j \in DOMAIN lines : lines[j].kind \in {"pad", "pins_anchor"}}}

Undefined == [undefined |-> TRUE]

\* what the alias *a, met at line `at`, stands for: the line of the latest
\* earlier node anchored a
AliasTarget(lines, a, at) ==
    LET defs == {i \in AnchorDefs(lines, a) : i < at}
    IN  IF defs = {} THEN Undefined ELSE [line |-> Max(defs)]

\* the value of one '- {number: .., pad: *X}' item
LoadedPin(lines, j) ==
    LET t == AliasTarget(lines, lines[j].pad.alias, j)
    IN  [number |-> lines[j].number,
         pad |-> IF "alias" \notin DOMAIN lines[j].pad THEN lines[j].pad
                 ELSE IF t = Undefined THEN Undefined
                 ELSE [name |-> lines[t.line].name, fields |-> PadBody(lines, t.line)]]

\* the node under a "pins: &A" line at line i: null or the list of its pins
PinsNode(lines, i) ==
    LET e == BlockEnd(lines, i, {"part_number", "blank", "pins_anchor", "pins_alias"})
    IN  IF e = i + 1 THEN [null |-> TRUE]
        ELSE [null |-> FALSE, list |-> [j \in 1..(e - i - 1) |-> LoadedPin(lines, i + j)]]

PinsLineIdx(lines) ==
    {i \in DOMAIN lines : lines[i].kind \in {"pins_anchor", "pins_alias"}}

\* the pins of the k-th variant with aliases resolved
LoadedVariantPins(lines, k) ==
    LET i == Nth(PinsLineIdx(lines), k)
    IN  IF lines[i].kind = "pins_anchor" THEN PinsNode(lines, i)
        ELSE LET t == AliasTarget(lines, lines[i].alias, i)
             IN  IF t = Undefined THEN Undefined
                 ELSE IF lines[t.line].kind = "pins_anchor" THEN PinsNode(lines, t.line)
                 ELSE [name |-> lines[t.line].name, fields |-> PadBody(lines, t.line)]

(***************************************************************************)
(* The inputs generate_series_yaml is applied to.                          *)
(***************************************************************************)
SampleDocs == << [doc_type |-> "datasheet",
                  locales |-> <<[lang |-> "en", url |-> "https://example/ds_en.pdf"]>>] >>

PadDefOf(pad_name) ==
    CASE pad_name = "PA0" -> [type |-> "digital_io", description |-> "GPIO 0"]
      [] pad_name = "PA1" -> [type |-> "analog", notes |-> "ADC input"]
      [] OTHER -> [type |-> "power"]

PadItems(names) == [i \in DOMAIN names |-> [name |-> names[i], def |-> PadDefOf(names[i])]]

MuxEntry(pad_name, i) == [function |-> pad_name \o "_F" \o ToString(i), select |-> i - 1]
MuxList(pad_name, n) == [i \in 1..n |-> MuxEntry(pad_name, i)]

\* shared pinmux documents: any set of pads, each with 0..MaxMux entries
PinmuxTables ==
    { [pinmux |-> [p \in DOMAIN f |-> MuxList(p, f[p])]] :
        f \in UNION {[S -> 0..MaxMux] : S \in SUBSET PadNames} }

PinList(pad_seq) == [i \in DOMAIN pad_seq |-> [number |-> ToString(i), pad |-> pad_seq[i]]]
PinLists == {PinList(s) : s \in SeqsUpTo(PinPadNames, MaxPins)}

\* the pins field of a variant: absent, or any pin list
PinsChoices == {[has |-> FALSE]} \cup {[has |-> TRUE, pins |-> l] : l \in PinLists}

Variant(i, choice) ==
    IF choice.has
    THEN [part_number |-> "PN" \o ToString(i), description |-> "variant",
          package |-> IF i = 1 THEN "QFN68" ELSE "QFN48", pins |-> choice.pins]
    ELSE [part_number |-> "PN" \o ToString(i), description |-> "variant",
          package |-> IF i = 1 THEN "QFN68" ELSE "QFN48"]

Chip(pad_names, variants) ==
    [schema_version |-> 1, model_id |-> ModelId, lifecycle |-> "production",
     docs |-> SampleDocs, pads |-> PadItems(pad_names), variants |-> variants]

\* n variants: the first with pins `first`, the others with pins `later`
Variants(n, first, later) ==
    [i \in 1..n |-> Variant(i, IF i = 1 THEN first ELSE later)]

\* the chip with the pins field of variant k replaced (or removed)
WithPins(chip, k, choice) ==
    [chip EXCEPT !.variants = [chip.variants EXCEPT ![k] = Variant(k, choice)]]

PadSeqs == {s \in SeqsUpTo(PadNames, MaxPads) : Distinct(s)}

\* every pad list with every pinmux table, one variant
InitTables ==
    /\ \E s \in PadSeqs :
         chip_yaml = Chip(s, Variants(1, [has |-> TRUE, pins |-> PinList(<<"PA0">>)],
                                      [has |-> FALSE]))
    /\ alt_yaml = chip_yaml
    /\ pinmux_data \in PinmuxTables \cup {EmptyDict}

\* every variant list over two pad lists, paired with a chip that differs in
\* the pins field of one variant after the first
InitVariants ==
    /\ \E s \in {<<"PA0", "PA1">>, <<"PA1">>} :
       \E n \in 0..MaxVariants :
       \E first \in (IF n = 0 THEN {[has |-> FALSE]} ELSE PinsChoices) :
       \E later \in (IF n < 2 THEN {[has |-> FALSE]} ELSE PinsChoices) :
         chip_yaml = Chip(s, Variants(n, first, later))
    /\ \/ alt_yaml = chip_yaml
       \/ \E k \in 2..Len(chip_yaml.variants) : \E c \in PinsChoices :
            alt_yaml = WithPins(chip_yaml, k, c)
    /\ pinmux_data \in {EmptyDict, [pinmux |-> [p \in {"PA1"} |-> MuxList(p, 1)]]}

MergeInputs ==
    /\ InitTables \/ InitVariants
    /\ series = None
    /\ alt_series = None
    /\ mpc = "ready"

\* series_content = generate_series_yaml(chip_data, pinmux_data)
Generate ==
    /\ mpc = "ready"
    /\ series' = generate_series_yaml(chip_yaml, pinmux_data)
    /\ mpc' = "merged"
    /\ UNCHANGED <<chip_yaml, alt_yaml, pinmux_data, alt_series>>
    /\ UNCHANGED <<sip_vars, build_vars, validate_vars>>

\* the same call on the second chip definition
GenerateAlt ==
    /\ mpc = "merged"
    /\ alt_series' = generate_series_yaml(alt_yaml, pinmux_data)
    /\ mpc' = "compared"
    /\ UNCHANGED <<chip_yaml, alt_yaml, pinmux_data, series>>
    /\ UNCHANGED <<sip_vars, build_vars, validate_vars>>

NextMerge == Generate \/ GenerateAlt

\* no merge under way
MergeOff ==
    /\ chip_yaml = None
    /\ alt_yaml = None
    /\ pinmux_data = EmptyDict
    /\ series = None
    /\ alt_series = None
    /\ mpc = "off"

(***************************************************************************)
(* The SiP memory check, validate.py 34-65 and 98-140                      *)
(***************************************************************************)
Missing == [state |-> "missing"]
Malformed == [state |-> "malformed"]
Loaded(data) == [state |-> "ok", data |-> data]

Verdict(passed, messages) == [success |-> passed, messages |-> messages]

\* validate.py 34-41
get_sip_mpis(mpi_data) ==
    LET mpis == IF "mpis" \in DOMAIN mpi_data THEN mpi_data.mpis ELSE EmptyDict
    IN  {mpi_name \in DOMAIN mpis :
           IF "sip" \in DOMAIN mpis[mpi_name] THEN mpis[mpi_name].sip ELSE FALSE}

\* validate.py 54: variant.get('part_number', 'unknown')
PartNumberOf(variant) ==
    IF "part_number" \in DOMAIN variant THEN variant.part_number ELSE "unknown"

\* validate.py 55: variant.get('memory', [])
MemoryOf(variant) ==
    IF "memory" \in DOMAIN variant THEN variant.memory ELSE <<>>

\* validate.py 60-63: the message of one violation
SipError(part_number, mpi, sip_mpis) ==
    [variant |-> part_number, mpi |-> mpi, sip_mpis |-> sip_mpis]

\* validate.py 57-63: the violations of one memory list
RECURSIVE MemoryErrors(_, _, _)
MemoryErrors(part_number, memory_list, sip_mpis) ==
    IF memory_list = <<>> THEN <<>>
    ELSE LET mem == Head(memory_list)
             rest == MemoryErrors(part_number, Tail(memory_list), sip_mpis)
         IN  IF "mpi" \in DOMAIN mem /\ mem.mpi # "" /\ mem.mpi \notin sip_mpis
             THEN <<SipError(part_number, mem.mpi, sip_mpis)>> \o rest
             ELSE rest

\* MemoryErrors reporting a variant once, however many entries offend
MemoryErrorsOnce(part_number, memory_list, sip_mpis) ==
    IF \E j \in DOMAIN memory_list :
         /\ "mpi" \in DOMAIN memory_list[j]
         /\ memory_list[j].mpi \notin sip_mpis
    THEN LET j == Min({x \in DOMAIN memory_list :
                         /\ "mpi" \in DOMAIN memory_list[x]
                         /\ memory_list[x].mpi \notin sip_mpis})
         IN  <<SipError(part_number, memory_list[j].mpi, sip_mpis)>>
    ELSE <<>>

\* validate.py 53-63: for variant in variants
RECURSIVE VariantErrors(_, _)
VariantErrors(variants, sip_mpis) ==
    IF variants = <<>> THEN <<>>
    ELSE MemoryErrors(PartNumberOf(Head(variants)), MemoryOf(Head(variants)), sip_mpis)
         \o VariantErrors(Tail(variants), sip_mpis)

\* the same loop over MemoryErrorsOnce
RECURSIVE VariantErrorsOnce(_, _)
VariantErrorsOnce(variants, sip_mpis) ==
    IF variants = <<>> THEN <<>>
    ELSE MemoryErrorsOnce(PartNumberOf(Head(variants)), MemoryOf(Head(variants)), sip_mpis)
         \o VariantErrorsOnce(Tail(variants), sip_mpis)

\* validate_memory_sip with one violation per variant
validate_memory_sip_once(chip_data, sip_mpis) ==
    VariantErrorsOnce(IF "variants" \in DOMAIN chip_data THEN chip_data.variants ELSE <<>>,
                      sip_mpis)

\* validate.py 44-65
validate_memory_sip(chip_data, sip_mpis) ==
    VariantErrors(IF "variants" \in DOMAIN chip_data THEN chip_data.variants ELSE <<>>,
                  sip_mpis)

\* validate.py 122-123: mpi_dir / shared_pinmux / "mpi.yaml", and whether it exists
MpiFile(dir, shared_pinmux) ==
    IF shared_pinmux \in DOMAIN dir THEN dir[shared_pinmux] ELSE Missing

\* validate_chip_source taking a missing MPI table for an empty one
validate_chip_source_empty_table(file, dir) ==
    IF file.state = "missing" THEN Verdict(TRUE, <<>>)
    ELSE IF file.state = "malformed" THEN Verdict(FALSE, <<[parse_error |-> "chip.yaml"]>>)
    ELSE IF "shared_pinmux" \notin DOMAIN file.data \/ file.data.shared_pinmux = ""
         THEN Verdict(TRUE, <<>>)
    ELSE LET mpi_yaml == MpiFile(dir, file.data.shared_pinmux) IN
         IF mpi_yaml.state = "malformed"
         THEN Verdict(FALSE, <<[parse_error |-> "mpi.yaml"]>>)
         ELSE LET memory_errors ==
                    validate_memory_sip(file.data,
                        IF mpi_yaml.state = "missing" THEN {}
                        ELSE get_sip_mpis(mpi_yaml.data))
              IN  IF memory_errors # <<>> THEN Verdict(FALSE, memory_errors)
                  ELSE Verdict(TRUE, <<>>)

\* validate.py 98-140
validate_chip_source(file, dir) ==
    IF file.state = "missing" THEN Verdict(TRUE, <<>>)
    ELSE IF file.state = "malformed" THEN Verdict(FALSE, <<[parse_error |-> "chip.yaml"]>>)
    ELSE IF "shared_pinmux" \notin DOMAIN file.data \/ file.data.shared_pinmux = ""
         THEN Verdict(TRUE, <<>>)
    ELSE LET mpi_yaml == MpiFile(dir, file.data.shared_pinmux) IN
         IF mpi_yaml.state = "missing" THEN Verdict(TRUE, <<>>)
         ELSE IF mpi_yaml.state = "malformed"
         THEN Verdict(FALSE, <<[parse_error |-> "mpi.yaml"]>>)
         ELSE LET memory_errors ==
                    validate_memory_sip(file.data, get_sip_mpis(mpi_yaml.data))
              IN  IF memory_errors # <<>> THEN Verdict(FALSE, memory_errors)
                  ELSE Verdict(TRUE, <<>>)

(***************************************************************************)
(* The inputs validate_chip_source is applied to.                          *)
(***************************************************************************)
MemEntries == {[mpi |-> "mpi1", size |-> 4], [mpi |-> "mpi2", size |-> 8], [size |-> 16]}

\* the memory field of a variant: absent, or any list of entries
MemoryChoices ==
    {[has |-> FALSE]} \cup
    {[has |-> TRUE, memory |-> l] : l \in SeqsUpTo(MemEntries, MaxMemory)}

SourceVariant(i, named, choice) ==
    LET pins == PinList(<<"PA0">>) IN
    CASE named /\ choice.has ->
           [part_number |-> "PN" \o ToString(i), description |-> "variant",
            package |-> "QFN68", pins |-> pins, memory |-> choice.memory]
      [] named /\ ~choice.has ->
           [part_number |-> "PN" \o ToString(i), description |-> "variant",
            package |-> "QFN68", pins |-> pins]
      [] ~named /\ choice.has ->
           [description |-> "variant", package |-> "QFN68", pins |-> pins,
            memory |-> choice.memory]
      [] OTHER -> [description |-> "variant", package |-> "QFN68", pins |-> pins]

SourceVariants(n, named, first, later) ==
    [i \in 1..n |-> SourceVariant(i, named, IF i = 1 THEN first ELSE later)]

\* the shared_pinmux field of a chip: absent, or a name (possibly empty)
SharedChoices ==
    {[has |-> FALSE]} \cup {[has |-> TRUE, name |-> n] : n \in {"", "p1", "p2", "p3"}}

SourceChip(shared, variants) ==
    IF shared.has
    THEN [schema_version |-> 1, model_id |-> ModelId, lifecycle |-> "production",
          docs |-> SampleDocs, pads |-> PadItems(<<"PA0">>), variants |-> variants,
          shared_pinmux |-> shared.name]
    ELSE Chip(<<"PA0">>, variants)

\* MPI documents: mpi1 is SiP and mpi2 is not; mpi2 is SiP and mpi1 has no
\* sip field; no mpis at all
MpiConfigs ==
    { [mpis |-> [mpi1 |-> [sip |-> TRUE, base |-> 1], mpi2 |-> [sip |-> FALSE, base |-> 2]]],
      [mpis |-> [mpi1 |-> [base |-> 1], mpi2 |-> [sip |-> TRUE, base |-> 2]]],
      [version |-> 1] }

\* common/mpi: p1/mpi.yaml loads, p3/mpi.yaml is malformed, there is no p2
MpiDirs == { [p1 |-> Loaded(c), p3 |-> Malformed] : c \in MpiConfigs }

SipInputs ==
    /\ \/ chip_file \in {Missing, Malformed}
       \/ \E shared \in SharedChoices : \E named \in BOOLEAN :
          \E n \in 0..MaxVariants :
          \E first \in (IF n = 0 THEN {[has |-> FALSE]} ELSE MemoryChoices) :
          \E later \in (IF n < 2 THEN {[has |-> FALSE]} ELSE MemoryChoices) :
            chip_file = Loaded(SourceChip(shared, SourceVariants(n, named, first, later)))
    /\ mpi_dir \in MpiDirs
    /\ sip_result = None
    /\ spc = "ready"

\* no SiP check under way
SipOff ==
    /\ chip_file = Missing
    /\ mpi_dir = EmptyDict
    /\ sip_result = None
    /\ spc = "off"

\* sip_success, sip_errors = validate_chip_source(chip_source_dir, mpi_dir)
CheckSource ==
    /\ spc = "ready"
    /\ sip_result' = validate_chip_source(chip_file, mpi_dir)
    /\ spc' = "checked"
    /\ UNCHANGED <<chip_file, mpi_dir>>
    /\ UNCHANGED <<merge_vars, build_vars, validate_vars>>

NextSip == CheckSource

(***************************************************************************)
(* The build command, build.py 129-221                                     *)
(***************************************************************************)
ChipName(i) == "chip" \o ToString(i)

\* a dict without key k, and with key k set to v
Drop(d, k) == [x \in DOMAIN d \ {k} |-> d[x]]
With(d, k, v) == [x \in DOMAIN d \cup {k} |-> IF x = k THEN v ELSE d[x]]

Returned(result, wrote, content, warnings) ==
    [raised |-> FALSE, result |-> result, wrote |-> wrote, content |-> content,
     warnings |-> warnings]
Raised(error) == [raised |-> TRUE, error |-> error]

\* build.py 147-148: pinmux_dir / pinmux_name / "pinmux.yaml", and whether it exists
PinmuxFile(dir, pinmux_name) ==
    IF pinmux_name \in DOMAIN dir THEN dir[pinmux_name] ELSE Missing

\* build_chip giving up on a chip whose shared pinmux table is not there
build_chip_strict(file, dir) ==
    IF file.state = "missing" THEN Returned(TRUE, FALSE, None, <<>>)
    ELSE IF file.state = "malformed" THEN Raised("YAMLError")
    ELSE LET chip_data == file.data
             named == "shared_pinmux" \in DOMAIN chip_data
             pinmux_yaml == IF named THEN PinmuxFile(dir, chip_data.shared_pinmux)
                            ELSE Missing
         IN  IF named /\ pinmux_yaml.state = "malformed" THEN Raised("YAMLError")
             ELSE IF named /\ pinmux_yaml.state = "missing"
             THEN Returned(FALSE, FALSE, None, <<>>)
             ELSE LET series_content ==
                        generate_series_yaml(chip_data,
                            IF named THEN pinmux_yaml.data ELSE EmptyDict)
                  IN  IF ~series_content.ok THEN Raised(series_content)
                      ELSE Returned(TRUE, TRUE, series_content.lines, <<>>)

\* build.py 129-162: the outcome of build_chip on a chip directory whose
\* chip.yaml is `file`; an exception no handler catches leaves the call
build_chip(file, dir) ==
    IF file.state = "missing" THEN Returned(TRUE, FALSE, None, <<>>)
    ELSE IF file.state = "malformed" THEN Raised("YAMLError")
    ELSE LET chip_data == file.data
             named == "shared_pinmux" \in DOMAIN chip_data
             pinmux_yaml == IF named THEN PinmuxFile(dir, chip_data.shared_pinmux)
                            ELSE Missing
             warnings == IF named /\ pinmux_yaml.state = "missing"
                         THEN <<[warning |-> "shared pinmux not found",
                                 pinmux_name |-> chip_data.shared_pinmux]>>
                         ELSE <<>>
         IN  IF named /\ pinmux_yaml.state = "malformed" THEN Raised("YAMLError")
             ELSE LET series_content ==
                        generate_series_yaml(chip_data,
                            IF named /\ pinmux_yaml.state = "ok" THEN pinmux_yaml.data
                            ELSE EmptyDict)
                  IN  IF ~series_content.ok THEN Raised(series_content)
                      ELSE Returned(TRUE, TRUE, series_content.lines, warnings)

\* chip definitions the build is run on
CompleteChip ==
    Chip(<<"PA0", "PA1">>,
         Variants(2, [has |-> TRUE, pins |-> PinList(<<"PA0", "PA1">>)],
                  [has |-> TRUE, pins |-> PinList(<<"PA1">>)]))

BuildChips ==
    { CompleteChip,
      With(CompleteChip, "shared_pinmux", "p1"),
      With(CompleteChip, "shared_pinmux", "p2"),
      Drop(With(CompleteChip, "shared_pinmux", "p2"), "variants"),
      Drop(CompleteChip, "schema_version") }

\* an entry of chips/: a plain file, or a directory and its chip.yaml
ChipsEntries ==
    {[is_dir |-> FALSE, chip_file |-> Missing]} \cup
    {[is_dir |-> TRUE, chip_file |-> f] :
       f \in {Missing, Malformed} \cup {Loaded(c) : c \in BuildChips}}

Named(entries) == [i \in DOMAIN entries |-> With(entries[i], "name", ChipName(i))]

\* common/pinmux: p1/pinmux.yaml covers PA0, p3/pinmux.yaml is malformed,
\* there is no p2
SamplePinmuxDir ==
    [p1 |-> Loaded([pinmux |-> [p \in {"PA0"} |-> MuxList(p, 2)]]), p3 |-> Malformed]

BuildInputs ==
    /\ \E entries \in SeqsUpTo(ChipsEntries, MaxChips) : chips_dir = Named(entries)
    /\ pinmux_dir = SamplePinmuxDir
    /\ out_files = EmptyDict
    /\ console = <<>>
    /\ visits = <<>>
    /\ success = TRUE
    /\ b_dirs = <<>>
    /\ b_all = TRUE
    /\ b_idx = 1
    /\ b_exit = -1
    /\ b_pc = "start"

\* no build under way
BuildOff ==
    /\ chips_dir = <<>>
    /\ pinmux_dir = EmptyDict
    /\ out_files = EmptyDict
    /\ console = <<>>
    /\ visits = <<>>
    /\ success = TRUE
    /\ b_dirs = <<>>
    /\ b_all = TRUE
    /\ b_idx = 1
    /\ b_exit = -1
    /\ b_pc = "off"

\* build.py 177-181: the project root is not found
BuildSetupFails ==
    /\ b_pc = "start"
    /\ b_exit' = 1
    /\ b_pc' = "aborted"
    /\ UNCHANGED <<chips_dir, pinmux_dir, out_files, console, visits, success,
                   b_dirs, b_all, b_idx>>
    /\ UNCHANGED <<merge_vars, sip_vars, validate_vars>>

\* build.py 206-208: no --chip, every entry of chips/ in sorted order
BuildAll ==
    /\ b_pc = "start"
    /\ b_dirs' = chips_dir
    /\ b_all' = TRUE
    /\ b_pc' = "loop"
    /\ UNCHANGED <<chips_dir, pinmux_dir, out_files, console, visits, success,
                   b_idx, b_exit>>
    /\ UNCHANGED <<merge_vars, sip_vars, validate_vars>>

\* build.py 196-203: --chip names an entry of chips/
BuildOne ==
    /\ b_pc = "start"
    /\ \E i \in DOMAIN chips_dir : b_dirs' = <<chips_dir[i]>>
    /\ b_all' = FALSE
    /\ b_pc' = "loop"
    /\ UNCHANGED <<chips_dir, pinmux_dir, out_files, console, visits, success,
                   b_idx, b_exit>>
    /\ UNCHANGED <<merge_vars, sip_vars, validate_vars>>

\* build.py 199-201: --chip names no entry of chips/
BuildOneNotFound ==
    /\ b_pc = "start"
    /\ b_exit' = 1
    /\ b_pc' = "aborted"
    /\ UNCHANGED <<chips_dir, pinmux_dir, out_files, console, visits, success,
                   b_dirs, b_all, b_idx>>
    /\ UNCHANGED <<merge_vars, sip_vars, validate_vars>>

\* build.py 208-209: an entry of chips/ that is no directory is passed over
BuildSkipFile ==
    /\ b_pc = "loop"
    /\ b_idx <= Len(b_dirs)
    /\ b_all /\ ~b_dirs[b_idx].is_dir
    /\ b_idx' = b_idx + 1
    /\ UNCHANGED <<chips_dir, pinmux_dir, out_files, console, visits, success,
                   b_dirs, b_all, b_exit, b_pc>>
    /\ UNCHANGED <<merge_vars, sip_vars, validate_vars>>

\* build.py 203-204, 210-213: build_chip on the next chip directory; an
\* exception leaving build_chip is caught nowhere and ends the process
BuildNext ==
    /\ b_pc = "loop"
    /\ b_idx <= Len(b_dirs)
    /\ ~(b_all /\ ~b_dirs[b_idx].is_dir)
    /\ LET chip_dir == b_dirs[b_idx]
           r == build_chip(chip_dir.chip_file, pinmux_dir)
       IN  /\ visits' = Append(visits, [name |-> chip_dir.name, outcome |-> r])
           /\ IF r.raised
              THEN /\ b_pc' = "crashed"
                   /\ b_exit' = 1
                   /\ UNCHANGED <<out_files, console, success, b_idx>>
              ELSE /\ out_files' = IF r.wrote THEN With(out_files, chip_dir.name, r.content)
                                   ELSE out_files
                   /\ console' = console \o
                        [i \in DOMAIN r.warnings |-> With(r.warnings[i], "chip", chip_dir.name)]
                   /\ success' = IF b_all THEN (IF ~r.result THEN FALSE ELSE success)
                                 ELSE r.result
                   /\ b_idx' = b_idx + 1
                   /\ UNCHANGED <<b_pc, b_exit>>
    /\ UNCHANGED <<chips_dir, pinmux_dir, b_dirs, b_all>>
    /\ UNCHANGED <<merge_vars, sip_vars, validate_vars>>

\* build.py 215-221
BuildFinish ==
    /\ b_pc = "loop"
    /\ b_idx > Len(b_dirs)
    /\ b_exit' = IF success THEN 0 ELSE 1
    /\ b_pc' = "done"
    /\ UNCHANGED <<chips_dir, pinmux_dir, out_files, console, visits, success,
                   b_dirs, b_all, b_idx>>
    /\ UNCHANGED <<merge_vars, sip_vars, validate_vars>>

NextBuild ==
    \/ BuildSetupFails
    \/ BuildAll
    \/ BuildOne
    \/ BuildOneNotFound
    \/ BuildSkipFile
    \/ BuildNext
    \/ BuildFinish

(***************************************************************************)
(* The validate command, validate.py 68-95 and 143-237                     *)
(***************************************************************************)
\* validate.py 68-95: series.yaml is absent, is no YAML, or is a document
\* for which the schema validator returns the list `violations`
validate_chip(series_file) ==
    IF series_file.state = "missing"
    THEN Verdict(TRUE, <<[skipped |-> "no series.yaml found"]>>)
    ELSE IF series_file.state = "malformed"
    THEN Verdict(FALSE, <<[parse_error |-> "series.yaml"]>>)
    ELSE IF series_file.data.violations # <<>>
    THEN Verdict(FALSE, series_file.data.violations)
    ELSE Verdict(TRUE, <<>>)

Line(status, messages) == [status |-> status, messages |-> messages]

\* the loop body without the check of the chip's source
validate_one_schema_only(entry, dir) ==
    LET r == validate_chip(entry.series)
    IN  IF r.success
        THEN IF r.messages # <<>> THEN Line("skipped", r.messages)
             ELSE Line("valid", <<>>)
        ELSE Line("INVALID", r.messages)

\* validate.py 209-232: the verdict on one chip and the status line printed
validate_one(entry, dir) ==
    LET r == validate_chip(entry.series)
        s == validate_chip_source(entry.chip_file, dir)
        sip_failed == r.success /\ entry.source_exists /\ ~s.success
        ok == r.success /\ ~sip_failed
        messages == IF sip_failed THEN s.messages ELSE r.messages
    IN  IF ok
        THEN IF messages # <<>> THEN Line("skipped", messages)
             ELSE Line("valid", <<>>)
        ELSE Line("INVALID", messages)

\* chip sources the validator is run on: memory on a non-SiP MPI without
\* shared_pinmux; memory on a SiP MPI; memory on a non-SiP MPI; memory on a
\* non-SiP MPI with shared_pinmux naming no MPI table
ValidateChips ==
    LET on(m) == SourceVariants(1, TRUE, [has |-> TRUE, memory |-> <<[mpi |-> m, size |-> 4]>>],
                                [has |-> FALSE])
    IN  { SourceChip([has |-> FALSE], on("mpi2")),
          SourceChip([has |-> TRUE, name |-> "p1"], on("mpi1")),
          SourceChip([has |-> TRUE, name |-> "p1"], on("mpi2")),
          SourceChip([has |-> TRUE, name |-> "p2"], on("mpi2")) }

SeriesFiles ==
    { Missing, Malformed, Loaded([violations |-> <<>>]),
      Loaded([violations |-> <<[path |-> "pads.PA0", message |-> "'type' is a required property"]>>]) }

\* an entry of out/: a plain file, or a directory with its series.yaml and
\* the chip's source directory chips/<name>
OutEntries ==
    {[is_dir |-> FALSE, series |-> Missing, source_exists |-> FALSE, chip_file |-> Missing]}
    \cup
    {[is_dir |-> TRUE, series |-> f, source_exists |-> FALSE, chip_file |-> Missing] :
       f \in SeriesFiles}
    \cup
    {[is_dir |-> TRUE, series |-> f, source_exists |-> TRUE, chip_file |-> c] :
       f \in SeriesFiles,
       c \in {Missing, Malformed} \cup {Loaded(d) : d \in ValidateChips}}

SampleMpiDir ==
    [p1 |-> Loaded([mpis |-> [mpi1 |-> [sip |-> TRUE, base |-> 1],
                              mpi2 |-> [sip |-> FALSE, base |-> 2]]]),
     p3 |-> Malformed]

ValidateInputs ==
    /\ \E entries \in SeqsUpTo(OutEntries, MaxChips) : out_dir = Named(entries)
    /\ report = <<>>
    /\ all_success = TRUE
    /\ validated = 0
    /\ failed = 0
    /\ v_dirs = <<>>
    /\ v_idx = 1
    /\ v_exit = -1
    /\ v_pc = "start"

\* no validation under way
ValidateOff ==
    /\ out_dir = <<>>
    /\ report = <<>>
    /\ all_success = TRUE
    /\ validated = 0
    /\ failed = 0
    /\ v_dirs = <<>>
    /\ v_idx = 1
    /\ v_exit = -1
    /\ v_pc = "off"

\* validate.py 160-164, 178-182, 192-194, 198-200: no project root, no
\* schema, no out/ directory, or --chip names no entry of out/
ValidateSetupFails ==
    /\ v_pc = "start"
    /\ v_exit' = 1
    /\ v_pc' = "aborted"
    /\ UNCHANGED <<out_dir, report, all_success, validated, failed, v_dirs, v_idx>>
    /\ UNCHANGED <<merge_vars, sip_vars, build_vars>>

\* validate.py 201-205: no --chip, every directory of out/ in sorted order
ValidateAll ==
    /\ v_pc = "start"
    /\ v_dirs' = SelectSeq(out_dir, LAMBDA d : d.is_dir)
    /\ v_pc' = "loop"
    /\ UNCHANGED <<out_dir, report, all_success, validated, failed, v_idx, v_exit>>
    /\ UNCHANGED <<merge_vars, sip_vars, build_vars>>

\* validate.py 188-195: --chip names an entry of out/
ValidateOne ==
    /\ v_pc = "start"
    /\ \E i \in DOMAIN out_dir : v_dirs' = <<out_dir[i]>>
    /\ v_pc' = "loop"
    /\ UNCHANGED <<out_dir, report, all_success, validated, failed, v_idx, v_exit>>
    /\ UNCHANGED <<merge_vars, sip_vars, build_vars>>

\* validate.py 208-232: one pass of the loop over chip_dirs
ValidateNext ==
    /\ v_pc = "loop"
    /\ v_idx <= Len(v_dirs)
    /\ LET line == validate_one(v_dirs[v_idx], mpi_dir)
       IN  /\ report' = Append(report, With(line, "name", v_dirs[v_idx].name))
           /\ validated' = IF line.status = "valid" THEN validated + 1 ELSE validated
           /\ failed' = IF line.status = "INVALID" THEN failed + 1 ELSE failed
           /\ all_success' = IF line.status = "INVALID" THEN FALSE ELSE all_success
    /\ v_idx' = v_idx + 1
    /\ UNCHANGED <<out_dir, v_dirs, v_exit, v_pc>>
    /\ UNCHANGED <<merge_vars, sip_vars, build_vars>>

\* validate.py 234-237
ValidateFinish ==
    /\ v_pc = "loop"
    /\ v_idx > Len(v_dirs)
    /\ v_exit' = IF all_success THEN 0 ELSE 1
    /\ v_pc' = "done"
    /\ UNCHANGED <<out_dir, report, all_success, validated, failed, v_dirs, v_idx>>
    /\ UNCHANGED <<merge_vars, sip_vars, build_vars>>

NextValidate ==
    \/ ValidateSetupFails
    \/ ValidateAll
    \/ ValidateOne
    \/ ValidateNext
    \/ ValidateFinish

(***************************************************************************)
(* Specifications: each component is explored from its own inputs.         *)
(***************************************************************************)
vars == <<merge_vars, sip_vars, build_vars, validate_vars>>

InitMerge == MergeInputs /\ SipOff /\ BuildOff /\ ValidateOff
SpecMerge == InitMerge /\ [][NextMerge]_vars

InitSip == SipInputs /\ MergeOff /\ BuildOff /\ ValidateOff
SpecSip == InitSip /\ [][NextSip]_vars

InitBuild == BuildInputs /\ MergeOff /\ SipOff /\ ValidateOff
SpecBuild == InitBuild /\ [][NextBuild]_vars

\* the validator reads the MPI tables of SampleMpiDir
InitValidate ==
    /\ ValidateInputs
    /\ MergeOff
    /\ BuildOff
    /\ chip_file = Missing
    /\ mpi_dir = SampleMpiDir
    /\ sip_result = None
    /\ spc = "off"
SpecValidate == InitValidate /\ [][NextValidate]_vars

(***************************************************************************)
(* Properties of generate_series_yaml (SpecMerge).                         *)
(***************************************************************************)
Merged == mpc # "ready" /\ series.ok
PadNamesOf(chip) == {chip.pads[i].name : i \in DOMAIN chip.pads}
NumVariants(chip) == Len(chip.variants)

\* C1: for a pinmux table covering the pads S of the chip, the output has a
\* pinmux list for exactly the pads in S, holding the table's entries for the
\* pad unchanged and in order, and no pinmux field for a pad outside S.
C1_PinmuxListExactlyForCoveredPads ==
    Merged =>
      \A i \in DOMAIN chip_yaml.pads :
        LET p == chip_yaml.pads[i].name
            at == PadLineOf(series.lines, p)
        IN  /\ Cardinality(at) = 1
            /\ LoadedPinmux(series.lines, Min(at)) =
                 IF p \in DOMAIN PinmuxMap(pinmux_data)
                 THEN [present |-> TRUE, null |-> FALSE,
                       list |-> PinmuxMap(pinmux_data)[p]]
                 ELSE [present |-> FALSE]

\* What does hold (not a claim of its own): the pinmux key is emitted for
\* exactly the covered pads, and every non-empty table list is read back
\* unchanged; an empty table list is read back as null.
PinmuxKeyExactlyForCoveredPads ==
    Merged =>
      \A i \in DOMAIN chip_yaml.pads :
        LET p == chip_yaml.pads[i].name
            got == LoadedPinmux(series.lines, Min(PadLineOf(series.lines, p)))
        IN  /\ got.present <=> p \in DOMAIN PinmuxMap(pinmux_data)
            /\ got.present =>
                 IF PinmuxMap(pinmux_data)[p] = <<>> THEN got.null
                 ELSE ~got.null /\ got.list = PinmuxMap(pinmux_data)[p]

\* C2: with at least one variant, the first variant's pin list is the one
\* anchored pin-list node, every other variant's pins is an alias of that
\* anchor, and with aliases resolved every variant has the first one's pins.
C2_LaterVariantsAliasFirstPins ==
    (Merged /\ NumVariants(chip_yaml) >= 1) =>
      LET L == series.lines
          P == PinsLineIdx(L)
          first == Nth(P, 1)
          pins == chip_yaml.variants[1].pins
      IN  /\ Cardinality(P) = NumVariants(chip_yaml)
          /\ {i \in P : L[i].kind = "pins_anchor"} = {first}
          /\ \A j \in DOMAIN pins :
               /\ L[first + j].kind = "pin"
               /\ L[first + j].number = pins[j].number
               /\ L[first + j].pad = [alias |-> pins[j].pad]
          /\ PinsNode(L, first) =
               IF pins = <<>> THEN [null |-> TRUE]
               ELSE [null |-> FALSE, list |-> [j \in DOMAIN pins |-> LoadedPin(L, first + j)]]
          /\ \A k \in 2..NumVariants(chip_yaml) :
               /\ L[Nth(P, k)] = [kind |-> "pins_alias", alias |-> L[first].anchor]
               /\ LoadedVariantPins(L, k) = LoadedVariantPins(L, 1)

\* C2 witness: three or two variants merged, the first with pins, a later one
\* whose own pins differ from the first's
C2_Witness ==
    /\ Merged
    /\ NumVariants(chip_yaml) >= 2
    /\ chip_yaml.variants[1].pins # <<>>
    /\ chip_yaml.variants[2].pins # chip_yaml.variants[1].pins

\* every pad named by a pin entry of the chip is a key of pads
PinsNameOnlyPads(chip) ==
    \A k \in DOMAIN chip.variants :
      "pins" \in DOMAIN chip.variants[k] =>
        \A j \in DOMAIN chip.variants[k].pins :
          chip.variants[k].pins[j].pad \in PadNamesOf(chip)

\* C9: when the pin entries name only pads of the chip, every anchor name is
\* defined exactly once (one per pad, plus the first variant's pin list), and
\* every pad inside a pin entry is an alias of that same pad's anchor, which
\* was put on the pad's node earlier, in the pads section.
C9_AnchorsUniqueAndPinsAliasPads ==
    (Merged /\ PinsNameOnlyPads(chip_yaml)) =>
      LET L == series.lines
          variants_at == Min({i \in DOMAIN L : L[i].kind = "variants"})
      IN  /\ \A a \in AnchorNames(L) : Cardinality(AnchorDefs(L, a)) = 1
          /\ AnchorNames(L) =
               PadNamesOf(chip_yaml) \cup
               (IF NumVariants(chip_yaml) >= 1
                THEN {chip_yaml.model_id \o "_QFN68_PINS"} ELSE {})
          /\ \A i \in PadLineIdx(L) : L[i].anchor = L[i].name /\ i < variants_at
          /\ \A j \in DOMAIN L :
               L[j].kind = "pin" =>
                 /\ DOMAIN L[j].pad = {"alias"}
                 /\ L[j].pad.alias =
                      chip_yaml.variants[1].pins[j - Nth(PinsLineIdx(L), 1)].pad
                 /\ AliasTarget(L, L[j].pad.alias, j) # Undefined
                 /\ LET t == AliasTarget(L, L[j].pad.alias, j).line
                    IN  /\ L[t].kind = "pad"
                        /\ L[t].name = L[j].pad.alias
                        /\ t < variants_at

\* C9 witness: two pads, both referred to by the first variant's pins
C9_Witness ==
    /\ Merged
    /\ PinsNameOnlyPads(chip_yaml)
    /\ Cardinality(PadNamesOf(chip_yaml)) = 2
    /\ NumVariants(chip_yaml) >= 1
    /\ {chip_yaml.variants[1].pins[j].pad : j \in DOMAIN chip_yaml.variants[1].pins}
         = PadNamesOf(chip_yaml)

\* the two chips differ at most in the pins field of variants after the first
DifferOnlyInLaterPins(a, b) ==
    /\ NumVariants(a) = NumVariants(b)
    /\ [a EXCEPT !.variants = <<>>] = [b EXCEPT !.variants = <<>>]
    /\ \A k \in DOMAIN a.variants :
         /\ DOMAIN a.variants[k] \ {"pins"} = DOMAIN b.variants[k] \ {"pins"}
         /\ \A f \in DOMAIN a.variants[k] \ {"pins"} : a.variants[k][f] = b.variants[k][f]
         /\ k = 1 => a.variants[k] = b.variants[k]

\* each variant after the first has a pins field in both chips or in neither
SamePinsPresence(a, b) ==
    \A k \in DOMAIN a.variants :
      ("pins" \in DOMAIN a.variants[k]) <=> ("pins" \in DOMAIN b.variants[k])

\* the line that follows the "package:" line of the k-th variant
LineAfterPackage(lines, k) ==
    lines[Nth({i \in DOMAIN lines : lines[i].kind = "package"}, k) + 1]

LaterPinsAreBareAlias(chip, out) ==
    out.ok =>
      \A k \in 2..NumVariants(chip) :
        /\ LineAfterPackage(out.lines, k) =
             [kind |-> "pins_alias", alias |-> chip.model_id \o "_QFN68_PINS"]
        /\ BlockEnd(out.lines, Nth(PinsLineIdx(out.lines), k),
                    {"part_number", "blank"}) = Nth(PinsLineIdx(out.lines), k) + 1

\* C10 as stated: two chips that differ only in the pins field of variants
\* after the first, in its content or in its presence, merge to the same
\* outcome and text, the later variants' pins being bare aliases of
\* <model_id>_QFN68_PINS.
C10_LaterPinsNeverRead ==
    (mpc = "compared" /\ DifferOnlyInLaterPins(chip_yaml, alt_yaml)) =>
      /\ series = alt_series
      /\ LaterPinsAreBareAlias(chip_yaml, series)
      /\ LaterPinsAreBareAlias(alt_yaml, alt_series)

\* C10 amended: the same, for two chips whose later variants differ only in
\* the content of a pins field that both have (or both lack).
C10_LaterPinsContentIgnored ==
    (/\ mpc = "compared"
     /\ DifferOnlyInLaterPins(chip_yaml, alt_yaml)
     /\ SamePinsPresence(chip_yaml, alt_yaml)) =>
      /\ series = alt_series
      /\ LaterPinsAreBareAlias(chip_yaml, series)
      /\ LaterPinsAreBareAlias(alt_yaml, alt_series)

\* C10 witness: two chips with different pins in the second variant, merged
C10_Witness ==
    /\ mpc = "compared"
    /\ series.ok
    /\ chip_yaml # alt_yaml
    /\ DifferOnlyInLaterPins(chip_yaml, alt_yaml)
    /\ SamePinsPresence(chip_yaml, alt_yaml)
    /\ NumVariants(chip_yaml) >= 2
    /\ alt_yaml.variants[2].pins # <<>>
    /\ chip_yaml.variants[2].pins # <<>>

(***************************************************************************)
(* Properties of the SiP memory check (SpecSip).                           *)
(***************************************************************************)
\* the check gets as far as validate_memory_sip
SipCheckRuns ==
    /\ chip_file.state = "ok"
    /\ "shared_pinmux" \in DOMAIN chip_file.data
    /\ chip_file.data.shared_pinmux # ""
    /\ MpiFile(mpi_dir, chip_file.data.shared_pinmux).state = "ok"

\* the MPI names whose sip field is true
SipNames(mpi_data) ==
    IF "mpis" \notin DOMAIN mpi_data THEN {}
    ELSE {n \in DOMAIN mpi_data.mpis :
            "sip" \in DOMAIN mpi_data.mpis[n] /\ mpi_data.mpis[n].sip = TRUE}

VariantsOf(chip) == IF "variants" \in DOMAIN chip THEN chip.variants ELSE <<>>

\* (variant, memory entry) pairs whose mpi name is not a SiP MPI
OffendingPairs(chip, sip) ==
    {p \in UNION {{<<i, j>> : j \in DOMAIN MemoryOf(VariantsOf(chip)[i])} :
                    i \in DOMAIN VariantsOf(chip)} :
       LET mem == MemoryOf(VariantsOf(chip)[p[1]])[p[2]]
       IN  "mpi" \in DOMAIN mem /\ mem.mpi \notin sip}

\* C3: when the SiP check runs, its violation list has exactly one violation
\* for every (variant, memory entry) pair whose mpi is not a sip == true MPI,
\* naming the variant's part number and the MPI, and no other violation.
C3_OneViolationPerOffendingEntry ==
    (spc = "checked" /\ SipCheckRuns) =>
      LET chip == chip_file.data
          sip == SipNames(MpiFile(mpi_dir, chip.shared_pinmux).data)
          bad == OffendingPairs(chip, sip)
          msgs == sip_result.messages
          part(p) == PartNumberOf(VariantsOf(chip)[p[1]])
          mpi(p) == MemoryOf(VariantsOf(chip)[p[1]])[p[2]].mpi
      IN  /\ Len(msgs) = Cardinality(bad)
          /\ \A p \in bad :
               Cardinality({k \in DOMAIN msgs :
                              msgs[k].variant = part(p) /\ msgs[k].mpi = mpi(p)})
                 = Cardinality({q \in bad : part(q) = part(p) /\ mpi(q) = mpi(p)})
          /\ \A k \in DOMAIN msgs :
               \E p \in bad : msgs[k].variant = part(p) /\ msgs[k].mpi = mpi(p)
          /\ sip_result.success <=> bad = {}

\* C3 witness: the check ran on two variants, one with two offending entries
\* and one with none although it has memory
C3_Witness ==
    /\ spc = "checked"
    /\ SipCheckRuns
    /\ Len(VariantsOf(chip_file.data)) = 2
    /\ Len(sip_result.messages) = 2
    /\ sip_result.messages[1].variant = "PN1"
    /\ sip_result.messages[2].variant = "PN1"
    /\ MemoryOf(chip_file.data.variants[2]) # <<>>

\* some memory entry of the chip names an MPI
NamesSomeMpi(chip) ==
    \E i \in DOMAIN VariantsOf(chip) :
      \E j \in DOMAIN MemoryOf(VariantsOf(chip)[i]) :
        "mpi" \in DOMAIN MemoryOf(VariantsOf(chip)[i])[j]

\* C7: with shared_pinmux absent or empty, or no MPI table at
\* common/mpi/<shared_pinmux>/mpi.yaml, the check passes with no violation
\* whatever the memory entries are.
C7_CheckSkippedWithoutMpiTable ==
    (/\ spc = "checked"
     /\ chip_file.state = "ok"
     /\ \/ "shared_pinmux" \notin DOMAIN chip_file.data
        \/ chip_file.data.shared_pinmux = ""
        \/ chip_file.data.shared_pinmux \notin DOMAIN mpi_dir) =>
      sip_result = Verdict(TRUE, <<>>)

\* C7 witness: shared_pinmux names a table that is not there, the memory
\* entries name MPIs, and the check has passed
C7_Witness ==
    /\ spc = "checked"
    /\ chip_file.state = "ok"
    /\ "shared_pinmux" \in DOMAIN chip_file.data
    /\ chip_file.data.shared_pinmux = "p2"
    /\ NamesSomeMpi(chip_file.data)
    /\ sip_result.success

(***************************************************************************)
(* Properties of the validate command (SpecValidate).                      *)
(***************************************************************************)
\* the structural check of the chip fails: series.yaml is no YAML, or the
\* schema validator returns violations for it
StructuralCheckFails(entry) ==
    \/ entry.series.state = "malformed"
    \/ entry.series.state = "ok" /\ entry.series.data.violations # <<>>

\* the SiP domain check of the chip fails: a document it needs cannot be
\* parsed, or it runs and some memory entry is on an MPI that is not SiP
DomainCheckFails(entry, dir) ==
    /\ entry.source_exists
    /\ \/ entry.chip_file.state = "malformed"
       \/ /\ entry.chip_file.state = "ok"
          /\ "shared_pinmux" \in DOMAIN entry.chip_file.data
          /\ entry.chip_file.data.shared_pinmux # ""
          /\ LET mpi_yaml == MpiFile(dir, entry.chip_file.data.shared_pinmux)
             IN  \/ mpi_yaml.state = "malformed"
                 \/ /\ mpi_yaml.state = "ok"
                    /\ OffendingPairs(entry.chip_file.data, SipNames(mpi_yaml.data)) # {}

\* C4: in a run that passes setup a chip is reported INVALID iff its
\* structural check or its SiP domain check fails, and the command exits 1
\* iff some processed chip is INVALID, else 0.
C4_InvalidIffACheckFails ==
    (v_pc \in {"loop", "done"}) =>
      /\ Len(report) = v_idx - 1
      /\ \A k \in DOMAIN report :
           /\ report[k].name = v_dirs[k].name
           /\ report[k].status = "INVALID" <=>
                (StructuralCheckFails(v_dirs[k]) \/ DomainCheckFails(v_dirs[k], mpi_dir))
      /\ v_pc = "done" =>
           /\ Len(report) = Len(v_dirs)
           /\ v_exit \in {0, 1}
           /\ v_exit = 1 <=> \E k \in DOMAIN report : report[k].status = "INVALID"

\* C4 witness: a finished run over two chips, one INVALID by the domain
\* check alone and one valid
C4_Witness ==
    /\ v_pc = "done"
    /\ Len(report) = 2
    /\ report[1].status = "INVALID"
    /\ v_dirs[1].series.state = "ok"
    /\ ~StructuralCheckFails(v_dirs[1])
    /\ v_dirs[1].chip_file.state = "ok"
    /\ report[2].status = "valid"
    /\ v_exit = 1

\* C5: a chip whose series.yaml is missing is reported as skipped, is counted
\* neither as valid nor as invalid, and does not make the run fail, whatever
\* its source definition and the MPI table hold.
C5_MissingSeriesIsSkipped ==
    (v_pc \in {"loop", "done"}) =>
      LET missing == {k \in DOMAIN report : v_dirs[k].series.state = "missing"}
      IN  /\ \A k \in missing : report[k].status = "skipped"
          /\ validated + failed = Len(report) - Cardinality(missing)
          /\ (v_pc = "done" /\ missing = DOMAIN report) => v_exit = 0

(***************************************************************************)
(* Properties of the build command (SpecBuild).                            *)
(***************************************************************************)
\* the chip directories the run is to build
ToBuild == {i \in DOMAIN b_dirs : ~b_all \/ b_dirs[i].is_dir}

Visited(name) == \E k \in DOMAIN visits : visits[k].name = name

\* C6: a failure while processing one chip (malformed YAML, a required key
\* missing) marks only that chip as failed; every remaining chip of the
\* sorted list is still processed, and only a setup error ends the run early.
C6_ChipFailureIsLocal ==
    (b_pc \in {"done", "crashed"}) =>
      \A i \in ToBuild : Visited(b_dirs[i].name)

\* every key generate_series_yaml looks up is there
CompleteDefinition(chip) ==
    /\ {"schema_version", "model_id", "lifecycle", "docs", "pads", "variants"}
         \subseteq DOMAIN chip
    /\ \A i \in DOMAIN chip.pads : "type" \in DOMAIN chip.pads[i].def
    /\ \A k \in DOMAIN chip.variants :
         {"part_number", "description", "package", "pins"} \subseteq DOMAIN chip.variants[k]

\* the chip directory names shared_pinmux and no table is at that path
NamesMissingPinmux(entry, dir) ==
    /\ entry.chip_file.state = "ok"
    /\ "shared_pinmux" \in DOMAIN entry.chip_file.data
    /\ entry.chip_file.data.shared_pinmux \notin DOMAIN dir
    /\ CompleteDefinition(entry.chip_file.data)

\* C8: for a chip that names a shared_pinmux whose table does not exist,
\* build_chip prints a warning, treats the table as empty, writes the series
\* document with no pinmux field on any pad and returns success, so the
\* build still exits 0.
C8_MissingPinmuxTableIsAWarning ==
    /\ \A k \in DOMAIN visits :
         LET entry == b_dirs[CHOOSE i \in DOMAIN b_dirs : b_dirs[i].name = visits[k].name]
             r == visits[k].outcome
         IN  NamesMissingPinmux(entry, pinmux_dir) =>
               /\ ~r.raised
               /\ r.result
               /\ \E w \in DOMAIN console :
                    /\ console[w].chip = entry.name
                    /\ console[w].pinmux_name = entry.chip_file.data.shared_pinmux
               /\ entry.name \in DOMAIN out_files
               /\ out_files[entry.name] =
                    generate_series_yaml(entry.chip_file.data, EmptyDict).lines
               /\ \A j \in DOMAIN out_files[entry.name] :
                    out_files[entry.name][j].kind \notin {"pinmux", "mux"}
               /\ PadLineIdx(out_files[entry.name]) # {}
    /\ (/\ b_pc = "done"
        /\ \E i \in ToBuild : NamesMissingPinmux(b_dirs[i], pinmux_dir)) =>
         (success /\ b_exit = 0)

\* C8 witness: a finished build of all chips, one of which names the missing
\* table p2
C8_Witness ==
    /\ b_pc = "done"
    /\ b_all
    /\ Len(visits) = 2
    /\ NamesMissingPinmux(b_dirs[1], pinmux_dir)
    /\ b_exit = 0

====
